---- MODULE Spec2Model ----
(***************************************************************************)
(* Model of Experiments/editFaces.py: the generation pass                  *)
(* (apply_network_to_images_of_dir), the aggregation pass                  *)
(* (compute_overall_difference) and the helpers they are built from.       *)
(*                                                                         *)
(* An array is a function from 0..n-1 to its samples in row-major order,   *)
(* as numpy lays it out; a batch of images is a function from 0..n-1 to    *)
(* images.                                                                 *)
(* Floating-point values that are not integers are exact rationals         *)
(* [n |-> numerator, d |-> denominator], with d = 0 for the IEEE specials  *)
(* (1/0 = inf, -1/0 = -inf, 0/0 = nan); rounding error is not modelled.    *)
(***************************************************************************)
EXTENDS Integers, Sequences, FiniteSets, TLC

\* Side of a sub-image in pixels (96 in the program, scaled down here).
CellSize == 2
\* Number of file names a directory may hold.
MaxFiles == 2
\* Longest array fed to normalize_image on its own.
MaxLen == 3

\* Geometry of the composite (lines 86-88, 101-105, 126-130).
GridRows == 7
GridCols == 7
CanvasCols == 10
ColumnOffset == 3
NeutralIndex == 24
NumGenerated == 49
GrayMax == 255

Names == 1..MaxFiles

-----------------------------------------------------------------------------
(* Exact arithmetic standing in for floating point.                        *)

Abs(x) == IF x < 0 THEN 0 - x ELSE x

RECURSIVE GCD(_, _)
GCD(a, b) == IF b = 0 THEN a ELSE GCD(b, a % b)

NaN == [n |-> 0, d |-> 0]
PosInf == [n |-> 1, d |-> 0]
NegInf == [n |-> 0 - 1, d |-> 0]

\* The value num/den of a float division, IEEE specials included.
Rat(num, den) ==
    IF den = 0
    THEN (IF num > 0 THEN PosInf ELSE IF num < 0 THEN NegInf ELSE NaN)
    ELSE LET g == GCD(Abs(num), Abs(den))
             s == IF den < 0 THEN 0 - 1 ELSE 1
         IN [n |-> (s * num) \div g, d |-> (s * den) \div g]

IsFinite(q) == q.d # 0
IsNaN(q) == q.d = 0 /\ q.n = 0

\* e / q for an integer sample e and a float q.
DivByRat(e, q) ==
    IF IsNaN(q) THEN NaN
    ELSE IF q.d = 0 THEN Rat(0, 1)
    ELSE Rat(e * q.d, q.n)

RatLeq(a, b) == a.n * b.d <= b.n * a.d

\* numpy's max over an integer array.
ArrayMax(arr) ==
    LET samples == {arr[ix] : ix \in DOMAIN arr}
    IN CHOOSE v \in samples : \A w \in samples : w <= v

\* numpy's max over a float array (NaN propagates).
RatArrayMax(arr) ==
    IF \E ix \in DOMAIN arr : IsNaN(arr[ix]) THEN NaN
    ELSE LET values == {arr[ix] : ix \in DOMAIN arr}
         IN CHOOSE v \in values : \A w \in values : RatLeq(w, v)

-----------------------------------------------------------------------------
(* Helpers, lines 12-145.                                                  *)

\* normalize_image dividing by the largest sample alone.
normalize_image_to_one(img, maximum) ==
    LET divisor == Rat(ArrayMax(img), 1)
    IN [ix \in DOMAIN img |-> DivByRat(img[ix], divisor)]

\* img /= img.max()/maximum
normalize_image(img, maximum) ==
    LET divisor == Rat(ArrayMax(img), maximum)
    IN [ix \in DOMAIN img |-> DivByRat(img[ix], divisor)]

\* Shapes: a sub-image is CellSize x CellSize x 3, a composite 7 x 10 cells of
\* three channels, the heat map 7 x 7 cells of one channel.
CanvasWidth == CanvasCols * CellSize
SquareWidth == GridCols * CellSize
CellPix == 0..(CellSize * CellSize * 3 - 1)
CanvasPix == 0..(GridRows * CellSize * CanvasWidth * 3 - 1)
SquarePix == 0..(GridRows * CellSize * SquareWidth - 1)
CellPix2 == 0..(CellSize * CellSize - 1)

\* Position of sample [y, x, ch] (or [y, x]) in an array of the given width.
At3(y, x, ch, width) == (y * width + x) * 3 + ch
At2(y, x, width) == y * width + x
RowOf3(i, width) == i \div (width * 3)
ColOf3(i, width) == (i \div 3) % width
ChannelOf(i) == i % 3

\* np.concatenate of two batches.
Concat(a, b) ==
    LET la == Cardinality(DOMAIN a)
        lb == Cardinality(DOMAIN b)
    IN [i \in 0..(la + lb - 1) |-> IF i < la THEN a[i] ELSE b[i - la]]

\* batch[lo:hi]
Slice(batch, lo, hi) == [i \in 0..(hi - lo - 1) |-> batch[lo + i]]

\* np.zeros((1, 96, 96, 3)) and its triple tiling.
black_image == [i \in 0..0 |-> [ix \in CellPix |-> Rat(0, 1)]]
black_image3 == [i \in 0..2 |-> black_image[0]]

\* (x + 1) * 255 / 2, then astype('uint8'): truncation.
ToDisplay(q) == ((q.n + q.d) * GrayMax) \div (2 * q.d)

\* Lines 117-123: the 70 cells of the composite in row-major order.
FinalImageList(inp, generated_outp) ==
    Concat(black_image3, Concat(Slice(generated_outp, 0, 7),
    Concat(black_image3, Concat(Slice(generated_outp, 7, 14),
    Concat(black_image3, Concat(Slice(generated_outp, 14, 21),
    Concat(black_image, Concat(inp, Concat(black_image,
        Concat(Slice(generated_outp, 21, 28),
    Concat(black_image3, Concat(Slice(generated_outp, 28, 35),
    Concat(black_image3, Concat(Slice(generated_outp, 35, 42),
    Concat(black_image3, Slice(generated_outp, 42, NumGenerated))))))))))))))))

\* Lines 126-130: the image at position index is pasted into the cell at row
\* index // 10, column index % 10, so the cell at (row, column) shows the
\* image at position row * 10 + column.
FinalImage(final_image_list) ==
    [ix \in CanvasPix |->
        LET y == RowOf3(ix, CanvasWidth)
            col == ColOf3(ix, CanvasWidth)
            index_row == y \div CellSize
            index_column == col \div CellSize
        IN final_image_list[index_row * CanvasCols + index_column]
               [At3(y % CellSize, col % CellSize, ChannelOf(ix), CellSize)]]

\* The composite file save_generated_output writes (lines 108-133).
save_generated_output(inp, generated_outp) ==
    LET final_image == FinalImage(FinalImageList(inp, generated_outp))
    IN [ix \in CanvasPix |-> ToDisplay(final_image[ix])]

\* get_generated_images with the column offset off by one.
get_generated_images_offset2(img) ==
    [k \in 0..(GridRows * GridCols - 1) |->
        LET r == k \div GridCols
            c == k % GridCols
        IN [ix \in CellPix |->
               img[At3(r * CellSize + RowOf3(ix, CellSize),
                       CellSize * (c + 2) + ColOf3(ix, CellSize),
                       ChannelOf(ix), CanvasWidth)]]]

\* Lines 84-90: cut the 49 generated images out of a composite.
get_generated_images(img) ==
    [k \in 0..(GridRows * GridCols - 1) |->
        LET r == k \div GridCols
            c == k % GridCols
        IN [ix \in CellPix |->
               img[At3(r * CellSize + RowOf3(ix, CellSize),
                       CellSize * (c + ColumnOffset) + ColOf3(ix, CellSize),
                       ChannelOf(ix), CanvasWidth)]]]

\* get_max_difference with np.minimum in the place of np.maximum.
get_min_difference(img1, img2) ==
    [ix \in CellPix2 |->
        LET red_error == Abs(img2[ix * 3] - img1[ix * 3])
            green_error == Abs(img2[ix * 3 + 1] - img1[ix * 3 + 1])
            blue_error == Abs(img2[ix * 3 + 2] - img1[ix * 3 + 2])
            rg == IF red_error <= green_error THEN red_error ELSE green_error
        IN IF rg <= blue_error THEN rg ELSE blue_error]

\* Lines 69-74: per pixel, the largest absolute channel difference.
get_max_difference(img1, img2) ==
    [ix \in CellPix2 |->
        LET red_error == Abs(img2[ix * 3] - img1[ix * 3])
            green_error == Abs(img2[ix * 3 + 1] - img1[ix * 3 + 1])
            blue_error == Abs(img2[ix * 3 + 2] - img1[ix * 3 + 2])
            rg == IF red_error >= green_error THEN red_error ELSE green_error
        IN IF rg >= blue_error THEN rg ELSE blue_error]

\* Lines 101-106: image number index goes to row index // 7, column
\* index % 7, so the tile at (row, column) shows image row * 7 + column.
tile_to_square(images) ==
    [ix \in SquarePix |->
        LET y == ix \div SquareWidth
            col == ix % SquareWidth
        IN images[(y \div CellSize) * GridCols + (col \div CellSize)]
                 [At2(y % CellSize, col % CellSize, CellSize)]]

\* What the build makes of casting a NaN to an 8-bit sample (undefined in C).
UndefinedCast == {0, 1, GrayMax}

\* Lines 31-33: a float array to 8-bit gray: clipped to 0..255 and truncated.
ConvertL(q, undef) ==
    IF IsNaN(q) THEN undef
    ELSE IF q.d = 0 THEN (IF q.n > 0 THEN GrayMax ELSE 0)
    ELSE IF q.n <= 0 THEN 0
    ELSE IF q.n >= GrayMax * q.d THEN GrayMax
    ELSE q.n \div q.d
save_image_black_and_white(img_array, undef) ==
    [kind |-> "image", px |-> [ix \in DOMAIN img_array |-> ConvertL(img_array[ix], undef)]]

\* Lines 143-145: decoded 0..255 samples to network input.
load_image_as_network_input(image) ==
    LET scaled == normalize_image(image, 2)
    IN [ix \in DOMAIN image |-> Rat(scaled[ix].n - scaled[ix].d, scaled[ix].d)]

-----------------------------------------------------------------------------
(* Files and the inputs the passes are run on.                             *)

NoFile == [kind |-> "none", px |-> <<>>]
Corrupt == [kind |-> "corrupt", px |-> <<>>]
ImageFile(px) == [kind |-> "image", px |-> px]

\* A decoded and resized input photo: brightest sample 255 for odd names,
\* 100 for even ones.
SrcImage(name) ==
    [ix \in CellPix |->
        IF ix = 0 THEN (IF name % 2 = 1 THEN GrayMax ELSE 100)
        ELSE (20 * (ix + name)) % 100]

\* An output of the generator network (values in [-1, 1], here multiples of
\* 1/2): 49 pairwise different images for each seed.
GenSeeds == {0, 1}
GenSample(seed, k, ix) ==
    IF ix = 0 THEN k % 5
    ELSE IF ix = 1 THEN (k \div 5) % 5
    ELSE IF ix = 2 THEN k \div 25
    ELSE (seed + ix + k) % 5
GenOutput(seed) ==
    [k \in 0..(NumGenerated - 1) |->
        [ix \in CellPix |-> Rat(GenSample(seed, k, ix) - 2, 2)]]

\* A composite left in the output directory by an earlier run.
OldComposite == ImageFile([ix \in CanvasPix |-> 7])

-----------------------------------------------------------------------------
(* State.                                                                  *)

VARIABLES
    in_dir,         \* path_to_dir: name -> file
    out_dir,        \* path_to_out_dir (the directory aggregated): name -> file
    gpc,            \* position in apply_network_to_images_of_dir
    valence,        \* the 49 valence labels, in thousandths
    arousal,        \* the 49 arousal labels, in thousandths
    files_already,  \* line 217
    files,          \* line 219, the names not yet processed
    net_input,      \* i of line 222 for the file processed last
    x,              \* x of line 230 for the file processed last
    listings,       \* history: how often the output directory was listed
    inferred,       \* history: names run through inference, in order
    written,        \* history: names written, in order
    apc,            \* position in compute_overall_difference
    img_paths,      \* line 159, the names not yet accumulated
    res,            \* the running sum of line 161
    allover_max,    \* the running maximum of line 162
    differences_square, \* line 173 for the file accumulated last
    differences,    \* line 180, the array handed to save_image_black_and_white
    heat_map,       \* the file save_name
    accumulated,    \* history: names accumulated, in order
    npc,            \* position in a lone call of normalize_image
    img,            \* its argument img
    maximum,        \* its argument maximum
    normalized      \* its result

genVars == <<in_dir, out_dir, gpc, valence, arousal, files_already, files,
             net_input, x, listings, inferred, written>>
aggVars == <<apc, img_paths, res, allover_max, differences_square, differences,
             heat_map, accumulated>>
normVars == <<npc, img, maximum, normalized>>
vars == <<genVars, aggVars, normVars>>

\* The passes and calls that are not running.
AggIdle ==
    /\ apc = "idle"
    /\ img_paths = <<>>
    /\ res = <<>>
    /\ allover_max = 0
    /\ differences_square = <<>>
    /\ differences = <<>>
    /\ heat_map = NoFile
    /\ accumulated = <<>>
NormIdle ==
    /\ npc = "idle"
    /\ img = <<>>
    /\ maximum = 0
    /\ normalized = <<>>

\* np.arange(start, stop, step) for a negative step, in thousandths.
ARange(start, stop, step) ==
    LET len == ((start - stop) + (0 - step) - 1) \div (0 - step)
    IN [i \in 0..(len - 1) |-> start + i * step]

\* np.tile in the place of np.repeat.
RepeatAsTile(a, reps) ==
    [j \in 0..(Cardinality(DOMAIN a) * reps - 1) |-> a[j % Cardinality(DOMAIN a)]]

\* np.repeat(a, reps): every element reps times in a row.
Repeat(a, reps) ==
    [j \in 0..(Cardinality(DOMAIN a) * reps - 1) |-> a[j \div reps]]

\* Lines 197-199: reps copies of a one after another.
RepeatRows(a, reps) ==
    [j \in 0..(Cardinality(DOMAIN a) * reps - 1) |-> a[j % Cardinality(DOMAIN a)]]

\* All orders in which os.listdir may return the names of set S.
Orders(S) ==
    {s \in [1..Cardinality(S) -> S] : \A a, b \in DOMAIN s : a # b => s[a] # s[b]}

ListDir(dir) == {name \in DOMAIN dir : dir[name].kind # "none"}

\* The filter of line 219 left out.
SeqFilterNone(s, S) == s

\* Line 219: [f for f in s if not f in S].
SeqFilter(s, S) == SelectSeq(s, LAMBDA f : f \notin S)

\* The input directories: every name absent, unreadable or a photo.
InputDirs ==
    {[name \in Names |->
         IF k[name] = "image" THEN ImageFile(SrcImage(name))
         ELSE IF k[name] = "corrupt" THEN Corrupt ELSE NoFile] :
     k \in [Names -> {"none", "corrupt", "image"}]}

InitGen ==
    /\ in_dir \in InputDirs
    /\ out_dir \in [Names -> {NoFile, OldComposite}]
    /\ gpc = "labels"
    /\ valence = <<>>
    /\ arousal = <<>>
    /\ files_already = {}
    /\ files = <<>>
    /\ net_input = <<>>
    /\ x = <<>>
    /\ listings = 0
    /\ inferred = <<>>
    /\ written = <<>>
    /\ AggIdle
    /\ NormIdle

\* Lines 192-199.
BuildLabels ==
    /\ gpc = "labels"
    /\ valence' = Repeat(ARange(750, 0 - 751, 0 - 250), 7)
    /\ arousal' = RepeatRows(ARange(750, 0 - 751, 0 - 250), 7)
    /\ gpc' = "list_out"
    /\ UNCHANGED <<in_dir, out_dir, files_already, files, net_input, x,
                   listings, inferred, written,
                   aggVars, normVars>>

\* Line 217.
ListOutDir ==
    /\ gpc = "list_out"
    /\ files_already' = ListDir(out_dir)
    /\ listings' = listings + 1
    /\ gpc' = "list_in"
    /\ UNCHANGED <<in_dir, out_dir, valence, arousal, files, net_input, x,
                   inferred, written,
                   aggVars, normVars>>

\* Line 219.
ListInDir ==
    /\ gpc = "list_in"
    /\ \E order \in Orders(ListDir(in_dir)) :
           files' = SeqFilter(order, files_already)
    /\ gpc' = "loop"
    /\ UNCHANGED <<in_dir, out_dir, valence, arousal, files_already, net_input,
                   x, listings, inferred, written,
                   aggVars, normVars>>

\* Lines 221-233 for one file, every call succeeding.
ProcessFile ==
    /\ gpc = "loop"
    /\ files # <<>>
    /\ in_dir[Head(files)].kind = "image"
    /\ \E seed \in GenSeeds :
         LET file == Head(files)
             i == load_image_as_network_input(in_dir[file].px)
         IN /\ net_input' = i
            /\ x' = GenOutput(seed)
            /\ out_dir' = [out_dir EXCEPT ![file] =
                   ImageFile(save_generated_output([j \in 0..0 |-> net_input'], x'))]
            /\ inferred' = Append(inferred, file)
            /\ written' = Append(written, file)
    /\ files' = Tail(files)
    /\ UNCHANGED <<in_dir, valence, arousal, files_already, listings, gpc,
                   aggVars, normVars>>

\* Line 222 raises: the file is no image.
LoadFails ==
    /\ gpc = "loop"
    /\ files # <<>>
    /\ in_dir[Head(files)].kind = "corrupt"
    /\ gpc' = "failed"
    /\ UNCHANGED <<in_dir, out_dir, valence, arousal, files_already, files,
                   net_input, x, listings, inferred, written,
                   aggVars, normVars>>

\* Line 230 raises.
InferenceFails ==
    /\ gpc = "loop"
    /\ files # <<>>
    /\ in_dir[Head(files)].kind = "image"
    /\ net_input' = load_image_as_network_input(in_dir[Head(files)].px)
    /\ inferred' = Append(inferred, Head(files))
    /\ gpc' = "failed"
    /\ UNCHANGED <<in_dir, out_dir, valence, arousal, files_already, files,
                   x, listings, written,
                   aggVars, normVars>>

\* The loop of line 221 is exhausted.
FinishGen ==
    /\ gpc = "loop"
    /\ files = <<>>
    /\ gpc' = "done"
    /\ UNCHANGED <<in_dir, out_dir, valence, arousal, files_already, files,
                   net_input, x, listings, inferred, written,
                   aggVars, normVars>>

NextGen ==
    \/ BuildLabels
    \/ ListOutDir
    \/ ListInDir
    \/ ProcessFile
    \/ LoadFails
    \/ InferenceFails
    \/ FinishGen

SpecGen == InitGen /\ [][NextGen]_vars

-----------------------------------------------------------------------------
(* compute_overall_difference, lines 150-181.                              *)

GenIdle ==
    /\ in_dir = [name \in Names |-> NoFile]
    /\ gpc = "idle"
    /\ valence = <<>>
    /\ arousal = <<>>
    /\ files_already = {}
    /\ files = <<>>
    /\ net_input = <<>>
    /\ x = <<>>
    /\ listings = 0
    /\ inferred = <<>>
    /\ written = <<>>

\* A composite whose 49 sub-images show colour base, but for sub-image odd,
\* whose red sample is larger by delta; spacers and the photo as the
\* generation pass shows them.
Composite(base, odd, delta) ==
    [ix \in CanvasPix |->
        LET row == RowOf3(ix, CanvasWidth) \div CellSize
            col == ColOf3(ix, CanvasWidth) \div CellSize
        IN IF col < ColumnOffset
           THEN (IF row = 3 /\ col = 1 THEN 200 ELSE 127)
           ELSE IF (row * GridCols + (col - ColumnOffset) = odd) /\ ChannelOf(ix) = 0
                THEN base[1] + delta
                ELSE base[ChannelOf(ix) + 1]]

\* The composites a directory is filled from: two of one colour each, one
\* with the top right sub-image off by (10, 0, 0), one written by the
\* generation pass.
Composites ==
    { ImageFile(Composite(<<GrayMax, 0, 0>>, 0, 0)),
      ImageFile(Composite(<<0, GrayMax, 0>>, 0, 0)),
      ImageFile(Composite(<<100, 50, 20>>, GridCols - 1, 10)),
      ImageFile(save_generated_output(
          [j \in 0..0 |-> load_image_as_network_input(SrcImage(1))], GenOutput(0))) }

InitAgg ==
    /\ out_dir \in [Names -> Composites \cup {NoFile, Corrupt}]
    /\ GenIdle
    /\ NormIdle
    /\ apc = "list"
    /\ img_paths = <<>>
    /\ res = <<>>
    /\ allover_max = 0
    /\ differences_square = <<>>
    /\ differences = <<>>
    /\ heat_map = NoFile
    /\ accumulated = <<>>

\* Lines 159-162.
ListPaths ==
    /\ apc = "list"
    /\ img_paths' \in Orders(ListDir(out_dir))
    /\ res' = [ix \in SquarePix |-> 0]
    /\ allover_max' = 0
    /\ apc' = "loop"
    /\ UNCHANGED <<differences_square, differences, heat_map, accumulated,
                   genVars, normVars>>

\* Lines 170-173 for the composite img.
DifferencesSquare(image) ==
    LET gen_images == get_generated_images(image)
        neutral_generated_image == gen_images[NeutralIndex]
    IN tile_to_square([k \in DOMAIN gen_images |->
           get_max_difference(gen_images[k], neutral_generated_image)])

\* The comparison of line 176 left out, and the sum of line 178 overwritten.
RunningMaxLast(current, m) == m
RunningSumLast(sum, square) == square

\* Lines 175-178.
RunningMax(current, m) == IF m > current THEN m ELSE current
RunningSum(sum, square) == [ix \in DOMAIN sum |-> sum[ix] + square[ix]]

\* Lines 164-178 for one file.
Accumulate ==
    /\ apc = "loop"
    /\ img_paths # <<>>
    /\ out_dir[Head(img_paths)].kind = "image"
    /\ differences_square' = DifferencesSquare(out_dir[Head(img_paths)].px)
    /\ allover_max' = RunningMax(allover_max, ArrayMax(differences_square'))
    /\ res' = RunningSum(res, differences_square')
    /\ accumulated' = Append(accumulated, Head(img_paths))
    /\ img_paths' = Tail(img_paths)
    /\ UNCHANGED <<apc, differences, heat_map, genVars, normVars>>

\* The unreadable file skipped and the loop carried on.
ReadFailsSkipped ==
    /\ apc = "loop"
    /\ img_paths # <<>>
    /\ out_dir[Head(img_paths)].kind = "corrupt"
    /\ img_paths' = Tail(img_paths)
    /\ UNCHANGED <<apc, res, allover_max, differences_square, differences,
                   heat_map, accumulated, genVars, normVars>>

\* Line 166 raises: the file is no image.
ReadFails ==
    /\ apc = "loop"
    /\ img_paths # <<>>
    /\ out_dir[Head(img_paths)].kind = "corrupt"
    /\ apc' = "failed"
    /\ UNCHANGED <<img_paths, res, allover_max, differences_square, differences,
                   heat_map, accumulated, genVars, normVars>>

\* Lines 180-181, once the loop is exhausted. normalize_image divides in
\* place, so res and differences are one array afterwards.
Finalize ==
    /\ apc = "loop"
    /\ img_paths = <<>>
    /\ differences' = normalize_image(res, allover_max)
    /\ \E undef \in UndefinedCast :
           heat_map' = save_image_black_and_white(differences', undef)
    /\ res' = differences'
    /\ apc' = "done"
    /\ UNCHANGED <<img_paths, allover_max, differences_square, accumulated,
                   genVars, normVars>>

NextAgg ==
    \/ ListPaths
    \/ Accumulate
    \/ ReadFails
    \/ Finalize

SpecAgg == InitAgg /\ [][NextAgg]_vars

-----------------------------------------------------------------------------
(* normalize_image called on its own, lines 12-22.                         *)

ArrayValues == (0 - 3)..3
Maxima == 0..3

InitNorm ==
    /\ \E len \in 1..MaxLen : img \in [0..(len - 1) -> ArrayValues]
    /\ maximum \in Maxima
    /\ npc = "call"
    /\ normalized = <<>>
    /\ out_dir = [name \in Names |-> NoFile]
    /\ GenIdle
    /\ AggIdle

NormalizeCall ==
    /\ npc = "call"
    /\ normalized' = normalize_image(img, maximum)
    /\ npc' = "returned"
    /\ UNCHANGED <<img, maximum, genVars, aggVars>>

NextNorm == NormalizeCall

SpecNorm == InitNorm /\ [][NextNorm]_vars

-----------------------------------------------------------------------------
(* Properties of the generation pass, checked under SpecGen.               *)

Range(s) == {s[j] : j \in DOMAIN s}
Last(s) == s[Len(s)]
Cells == 0..(CellSize - 1)

\* The composite written last, and what it should show of a batch.
LastComposite == out_dir[Last(written)].px
Displayed(image) == [ix \in CellPix |-> ToDisplay(image[ix])]

\* C1: in the composite save_generated_output writes, cell (r, c + 3) holds
\* generated image 7 * r + c for all r, c in 0..6, so get_generated_images
\* returns the 49 generated images (as displayed) in their original order, and
\* no image it returns is the input image or a spacer.
C1_RoundTrip ==
    (gpc \in {"loop", "done"} /\ written # <<>>) =>
        /\ \A r \in 0..6, c \in 0..6, y \in Cells, col \in Cells, ch \in 0..2 :
               LastComposite[At3(r * CellSize + y, (c + 3) * CellSize + col, ch,
                                 10 * CellSize)]
                   = ToDisplay(x[7 * r + c][At3(y, col, ch, CellSize)])
        /\ get_generated_images(LastComposite)
               = [k \in 0..48 |-> Displayed(x[k])]
        /\ \A k \in 0..48 :
               /\ get_generated_images(LastComposite)[k] # Displayed(net_input)
               /\ get_generated_images(LastComposite)[k] # Displayed(black_image[0])

\* A run that wrote two composites: the last one was cut up again.
C1_Witness ==
    /\ gpc = "done"
    /\ Len(written) = 2
    /\ get_generated_images(LastComposite)[48] = Displayed(x[48])

\* C2: in the label grid valence varies slowest and arousal fastest, each
\* over 0.75, 0.5, ..., -0.75, and index 24, the reference index of
\* compute_overall_difference, is the one index labelled (0, 0).
C2_NeutralLabel ==
    (gpc # "labels") =>
        /\ DOMAIN valence = 0..48
        /\ DOMAIN arousal = 0..48
        /\ \A j \in 0..48 :
               /\ valence[j] = 750 - 250 * (j \div 7)
               /\ arousal[j] = 750 - 250 * (j % 7)
               /\ (valence[j] = 0 /\ arousal[j] = 0) <=> (j = 24)
        /\ NeutralIndex = 24

\* The labels are built and the pair at the reference index is (0, 0).
C2_Witness ==
    /\ gpc = "loop"
    /\ valence[NeutralIndex] = 0
    /\ arousal[NeutralIndex] = 0

\* C5: load_image_as_network_input maps every sample v of every image to
\* v / 127.5 - 1, whatever the other samples of the image are.
C5_NetworkInput ==
    (gpc \in {"loop", "done", "failed"} /\ inferred # <<>>) =>
        \A ix \in CellPix :
            net_input[ix] = Rat(2 * in_dir[Last(inferred)].px[ix] - 255, 255)

\* C6: the output directory is listed once, before the loop; the files run
\* through inference and written are the input names absent from that
\* listing, each once; a listed name is never run nor overwritten, and what
\* is written during the loop does not change what is still to be processed.
C6_SkipList ==
    /\ listings = (IF gpc \in {"labels", "list_out"} THEN 0 ELSE 1)
    /\ gpc \in {"loop", "done", "failed"} =>
           /\ files_already = {name \in Names : out_dir[name] = OldComposite}
           /\ Range(files) \cup Range(written) = ListDir(in_dir) \ files_already
           /\ Range(files) \cap Range(written) = {}
           /\ Len(files) = Cardinality(Range(files))
           /\ Len(written) = Cardinality(Range(written))
           /\ Len(inferred) = Cardinality(Range(inferred))
           /\ Range(written) \subseteq Range(inferred)
           /\ Range(inferred) \cap files_already = {}
    /\ gpc = "done" =>
           /\ Range(written) = ListDir(in_dir) \ files_already
           /\ inferred = written

\* A finished run that skipped a listed file and wrote another one.
C6_Witness ==
    /\ gpc = "done"
    /\ written # <<>>
    /\ files_already \cap ListDir(in_dir) # {}

-----------------------------------------------------------------------------
(* The two passes and the lone call together.                              *)

Init == InitGen \/ InitAgg \/ InitNorm

Next ==
    \/ BuildLabels
    \/ ListOutDir
    \/ ListInDir
    \/ ProcessFile
    \/ LoadFails
    \/ InferenceFails
    \/ FinishGen
    \/ ListPaths
    \/ Accumulate
    \/ ReadFails
    \/ Finalize
    \/ NormalizeCall

Spec == Init /\ [][Next]_vars

-----------------------------------------------------------------------------
(* Properties of the aggregation pass, checked under SpecAgg.              *)

\* The loop of lines 164-178 run over the files in the order paths.
RECURSIVE AccumulateAll(_)
AccumulateAll(paths) ==
    IF paths = <<>>
    THEN [sum |-> [ix \in SquarePix |-> 0], max |-> 0]
    ELSE LET before == AccumulateAll(SubSeq(paths, 1, Len(paths) - 1))
             square == DifferencesSquare(out_dir[Last(paths)].px)
         IN [sum |-> RunningSum(before.sum, square),
             max |-> RunningMax(before.max, ArrayMax(square))]

LoopExhausted == apc = "loop" /\ img_paths = <<>>

\* The names of S in ascending order.
Ascending(S) ==
    CHOOSE order \in Orders(S) :
        \A a, b \in DOMAIN order : a < b => order[a] < order[b]

\* C3: whatever the order in which the loop of compute_overall_difference
\* took the files, it ends with the running sum and the running maximum that
\* taking the same files in ascending order ends with, so every order of the
\* files ends with the same two.
C3_OrderIndependent ==
    LoopExhausted =>
        LET reference == AccumulateAll(Ascending(ListDir(out_dir)))
        IN /\ res = reference.sum
           /\ allover_max = reference.max

\* Two different composites were accumulated, the higher name first.
C3_Witness ==
    /\ LoopExhausted
    /\ Len(accumulated) = 2
    /\ accumulated[1] > accumulated[2]
    /\ out_dir[accumulated[1]] # out_dir[accumulated[2]]
    /\ allover_max > 0

\* Every file of the directory is a composite of 49 equal sub-images.
UniformFile(file) ==
    /\ file.kind = "image"
    /\ \A k \in 0..48 :
           get_generated_images(file.px)[k] = get_generated_images(file.px)[0]
UniformDirectory ==
    /\ ListDir(out_dir) # {}
    /\ \A name \in ListDir(out_dir) : UniformFile(out_dir[name])

\* C7: over a directory of composites whose 49 sub-images are equal,
\* compute_overall_difference completes and its heat map is black all over.
C7_BlackHeatMap ==
    UniformDirectory =>
        /\ apc # "failed"
        /\ apc = "done" =>
               /\ heat_map.kind = "image"
               /\ \A ix \in SquarePix : heat_map.px[ix] = 0

\* The composite with the corner sub-image k off by (10, 0, 0).
CornerComposite(k) == ImageFile(Composite(<<100, 50, 20>>, k, 10))
Corners == {GridCols - 1}
SingleCornerFile(k) ==
    /\ Cardinality(ListDir(out_dir)) = 1
    /\ \A name \in ListDir(out_dir) : out_dir[name] = CornerComposite(k)
InCell(ix, k) ==
    /\ (ix \div SquareWidth) \div CellSize = k \div 7
    /\ (ix % SquareWidth) \div CellSize = k % 7

\* C8 as claimed: the per-file tile is 0 but for the corner cell, which is
\* 10, and in the heat map that cell has the gray intensity 255.
C8_CornerIs255 ==
    \A k \in Corners :
        (SingleCornerFile(k) /\ apc = "done") =>
            /\ \A ix \in SquarePix :
                   differences_square[ix] = (IF InCell(ix, k) THEN 10 ELSE 0)
            /\ \A ix \in SquarePix : InCell(ix, k) => heat_map.px[ix] = 255

\* C8 as amended: the per-file tile is 0 but for the corner cell, which is
\* 10; the final normalization scales the sum to allover_max = 10, which
\* leaves it as it is, so in the heat map that cell is 10, the largest value
\* of the image, and every other pixel is 0.
C8_CornerIs10 ==
    \A k \in Corners :
        (SingleCornerFile(k) /\ apc \in {"loop", "done"} /\ accumulated # <<>>) =>
            /\ \A ix \in SquarePix :
                   differences_square[ix] = (IF InCell(ix, k) THEN 10 ELSE 0)
            /\ allover_max = 10
            /\ apc = "done" =>
                   \A ix \in SquarePix :
                       /\ differences[ix] = Rat(IF InCell(ix, k) THEN 10 ELSE 0, 1)
                       /\ heat_map.px[ix] = (IF InCell(ix, k) THEN 10 ELSE 0)

\* The heat map of a single composite with the top right sub-image off was
\* written.
C8_Witness ==
    /\ SingleCornerFile(6)
    /\ apc = "done"
    /\ heat_map.kind = "image"

\* The largest value of the set S of naturals, 0 when it is empty.
MaxOf(S) == IF S = {} THEN 0 ELSE CHOOSE v \in S : \A w \in S : w <= v

\* The state part of C10.
C10_Range ==
    /\ apc = "loop" =>
           /\ allover_max =
                  MaxOf({ArrayMax(DifferencesSquare(out_dir[name].px)) :
                             name \in Range(accumulated)})
           /\ allover_max <= ArrayMax(res)
           /\ allover_max <= GrayMax
    /\ (apc = "done" /\ allover_max > 0) =>
           \A ix \in SquarePix :
               /\ IsFinite(differences[ix])
               /\ RatLeq(Rat(0, 1), differences[ix])
               /\ RatLeq(differences[ix], Rat(allover_max, 1))
               /\ RatLeq(differences[ix], Rat(255, 1))

\* C10: with samples in 0..255, allover_max never decreases, is after every
\* file the largest difference value of the files accumulated so far and at
\* most the largest pixel of res; so, if some file has a nonzero difference,
\* every pixel handed to save_image_black_and_white is in [0, allover_max],
\* which is inside [0, 255].
C10_HeatMapRange ==
    /\ []C10_Range
    /\ [][allover_max' >= allover_max]_vars

\* Two files with nonzero differences were summed and the heat map written.
C10_Witness ==
    /\ apc = "done"
    /\ Len(accumulated) = 2
    /\ allover_max > 0
    /\ \E ix \in SquarePix : differences[ix] = Rat(allover_max, 1)
    /\ \E ix \in SquarePix :
           /\ RatLeq(differences[ix], Rat(allover_max, 1))
           /\ differences[ix] # Rat(allover_max, 1)
           /\ differences[ix] # Rat(0, 1)

-----------------------------------------------------------------------------
(* Failures, checked under Spec.                                           *)

-----------------------------------------------------------------------------
(* Properties of normalize_image, checked under SpecNorm.                  *)

Unchanged == normalized = [ix \in DOMAIN img |-> Rat(img[ix], 1)]

====
